---- MODULE Spec2Model ----
(***************************************************************************)
(* Model of main.py, the VPC flow-log processor: the two reference tables  *)
(* (protocol registry, tag lookup), the per-record extraction, the         *)
(* aggregation into tag_counts / port_protocol_counts and the top-level    *)
(* run that writes the two output tables.                                  *)
(*                                                                         *)
(* A Python str is a sequence of one-character strings, so that strip(),   *)
(* split() and lower() are computed character by character.  A dict is a   *)
(* function whose DOMAIN is the set of its keys (insertion order, which    *)
(* only the row order of the output files depends on, is not modelled).    *)
(***************************************************************************)
EXTENDS Integers, Sequences, FiniteSets, TLC

VARIABLES
    pc,                       \* position of the run in the module-level code
    protocol_file,            \* rows of protocol_numbers.csv as read by DictReader
    lookup_file,              \* rows of lookup_table.csv as read by DictReader
    protocols,                \* global dict: decimal -> keyword
    lookup_table,             \* global dict: "port:protocol" -> tag
    filename,                 \* argument of process_flow_log_file
    file_rows,                \* content of the flow-log source, one raw record each
    pos,                      \* number of raw records the loop has taken
    tag_counts,               \* local dict of process_flow_log_file
    port_protocol_counts,     \* local dict of process_flow_log_file
    error,                    \* the uncaught exception that ended the run, or "none"
    tag_counts_csv,           \* tag_counts.csv: "absent" or the written table
    port_protocol_counts_csv, \* port_protocol_counts.csv, likewise
    call,                     \* arguments of the last direct call of a resolver
    result                    \* what that call returned

vars == <<pc, protocol_file, lookup_file, protocols, lookup_table, filename,
          file_rows, pos, tag_counts, port_protocol_counts, error,
          tag_counts_csv, port_protocol_counts_csv, call, result>>

----------------------------------------------------------------------------
(* Bounds of the model *)

\* longest flow-log source, in raw records
MaxRecords == 4
\* longest lookup_table.csv, in rule rows
MaxRules == 3
\* longest protocol_numbers.csv, in rows
MaxProtocols == 2

----------------------------------------------------------------------------
(* Python str operations *)

UpperChars == <<"A","B","C","D","E","F","G","H","I","J","K","L","M",
                "N","O","P","Q","R","S","T","U","V","W","X","Y","Z">>
LowerChars == <<"a","b","c","d","e","f","g","h","i","j","k","l","m",
                "n","o","p","q","r","s","t","u","v","w","x","y","z">>

\* the whitespace characters of the model's alphabet
IsSpace(c) == c \in {" ", "\t", "\n"}

\* the lowercase letter of each uppercase letter
ToLower == [c \in {UpperChars[i] : i \in DOMAIN UpperChars} |->
               LowerChars[CHOOSE i \in DOMAIN UpperChars : UpperChars[i] = c]]

LowerChar(c) == IF c \in DOMAIN ToLower THEN ToLower[c] ELSE c

\* str.lower()
Lower(s) == [i \in DOMAIN s |-> LowerChar(s[i])]

RECURSIVE LStrip(_)
LStrip(s) == IF s # <<>> /\ IsSpace(Head(s)) THEN LStrip(Tail(s)) ELSE s

RECURSIVE RStrip(_)
RStrip(s) ==
    IF s # <<>> /\ IsSpace(s[Len(s)]) THEN RStrip(SubSeq(s, 1, Len(s) - 1)) ELSE s

\* str.strip()
Strip(s) == RStrip(LStrip(s))

RECURSIVE SplitFrom(_, _, _, _)
SplitFrom(s, i, cur, acc) ==
    IF i > Len(s)
    THEN IF cur = <<>> THEN acc ELSE Append(acc, cur)
    ELSE IF IsSpace(s[i])
         THEN SplitFrom(s, i + 1, <<>>, IF cur = <<>> THEN acc ELSE Append(acc, cur))
         ELSE SplitFrom(s, i + 1, Append(cur, s[i]), acc)

\* str.split() without arguments: runs of whitespace separate, no empty token
Split(s) == SplitFrom(s, 1, <<>>, <<>>)

\* str.endswith(suffix)
EndsWith(s, suffix) ==
    /\ Len(s) >= Len(suffix)
    /\ SubSeq(s, Len(s) - Len(suffix) + 1, Len(s)) = suffix

----------------------------------------------------------------------------
(* Python dict operations *)

EmptyDict == [k \in {} |-> 0]

\* d[k] = v
DictSet(d, k, v) == [x \in DOMAIN d \cup {k} |-> IF x = k THEN v ELSE d[x]]

\* d.get(k, default)
DictGet(d, k, default) == IF k \in DOMAIN d THEN d[k] ELSE default

RECURSIVE SumOver(_, _)
SumOver(d, keys) ==
    IF keys = {} THEN 0
    ELSE LET k == CHOOSE x \in keys : TRUE IN d[k] + SumOver(d, keys \ {k})

\* sum(d.values())
SumValues(d) == SumOver(d, DOMAIN d)

----------------------------------------------------------------------------
(* String literals of main.py *)

Untagged   == <<"U","n","t","a","g","g","e","d">>
Unassigned == <<"U","n","a","s","s","i","g","n","e","d">>
Colon      == <<":">>
DotCsv     == <<".","c","s","v">>
FlowLogsTxt == <<"f","l","o","w","_","l","o","g","s",".","t","x","t">>
FlowLogsCsv == <<"f","l","o","w","_","l","o","g","s",".","c","s","v">>

\* the field count of the flow-log schema
NumFields == 14
\* 0-based index of the destination port, fields[5]
DstPortIndex == 5
\* 0-based index of the protocol number, fields[7]
ProtocolIndex == 7

----------------------------------------------------------------------------
(* The functions of main.py *)

\* as LoadLookupRow, but the tag is stored in the case the file gives it
LoadLookupRowKeepingCase(lookup, row) ==
    LET dstport  == Strip(row.dstport)
        protocol == Lower(Strip(row.protocol))
        key      == dstport \o Colon \o protocol
    IN  DictSet(lookup, key, Strip(row.tag))

\* as LoadLookupRow, but a key that is already in the table keeps its tag
LoadLookupRowFirstWins(lookup, row) ==
    LET dstport  == Strip(row.dstport)
        protocol == Lower(Strip(row.protocol))
        key      == dstport \o Colon \o protocol
    IN  IF key \in DOMAIN lookup THEN lookup
        ELSE DictSet(lookup, key, Lower(Strip(row.tag)))

\* lines 17-21: one iteration of the loop over the rule rows
LoadLookupRow(lookup, row) ==
    LET dstport  == Strip(row.dstport)
        protocol == Lower(Strip(row.protocol))
        key      == dstport \o Colon \o protocol
    IN  DictSet(lookup, key, Lower(Strip(row.tag)))

RECURSIVE LoadLookupRows(_, _)
LoadLookupRows(lookup, rows) ==
    IF rows = <<>> THEN lookup
    ELSE LoadLookupRows(LoadLookupRow(lookup, Head(rows)), Tail(rows))

load_lookup_table(rows) == LoadLookupRows(EmptyDict, rows)

\* as get_tag_from_lookup, but the protocol name is not lowercased
get_tag_case_sensitive(table, dstport, protocol) ==
    LET key == dstport \o Colon \o protocol
        got == DictGet(table, key, <<>>)
    IN  IF key \in DOMAIN table /\ got # <<>> THEN got ELSE Untagged

\* as get_tag_from_lookup, but with lookup_table.get(key, "Untagged")
get_tag_default_when_absent(table, dstport, protocol) ==
    DictGet(table, dstport \o Colon \o Lower(protocol), Untagged)

\* line 37-38
get_tag_from_lookup(table, dstport, protocol) ==
    LET key == dstport \o Colon \o Lower(protocol)
        got == DictGet(table, key, <<>>)      \* None and "" are both falsy
    IN  IF key \in DOMAIN table /\ got # <<>> THEN got ELSE Untagged

RECURSIVE LoadProtocolRows(_, _)
LoadProtocolRows(table, rows) ==
    IF rows = <<>> THEN table
    ELSE LoadProtocolRows(DictSet(table, Head(rows).Decimal, Head(rows).Keyword),
                          Tail(rows))

load_protocols_from_csv(rows) == LoadProtocolRows(EmptyDict, rows)

\* as get_protcol_from_protocol_number, but with protocols.get(n) or "Unassigned"
get_protocol_or_unassigned(protocol_number, table) ==
    IF protocol_number \in DOMAIN table /\ table[protocol_number] # <<>>
    THEN table[protocol_number]
    ELSE Unassigned

\* line 75
get_protcol_from_protocol_number(protocol_number, table) ==
    DictGet(table, protocol_number, Unassigned)

\* A raw record is [kind |-> "list", val |-> <fields>] (a row of csv.reader) or
\* [kind |-> "str", val |-> <characters>] (a line of the text file).
ListRow(fields) == [kind |-> "list", val |-> fields]
StrRow(chars)   == [kind |-> "str",  val |-> chars]

\* the return value None
None == <<>>

\* extract_dstport_protocol: [raised, value]; value is None or <<dstport, protocol>>
extract_dstport_protocol(row) ==
    LET fields == IF row.kind = "list" THEN row.val ELSE Split(row.val)
    IN  IF Len(fields) < ProtocolIndex + 1
        THEN [raised |-> "IndexError", value |-> None]
        ELSE LET dstport  == Strip(fields[DstPortIndex + 1])
                 protocol == Strip(fields[ProtocolIndex + 1])
             IN  IF dstport = <<>> \/ protocol = <<>>
                 THEN [raised |-> "none", value |-> None]
                 ELSE [raised |-> "none", value |-> <<dstport, protocol>>]

\* lines 135 and 137: d[k] = d.get(k, 0) + 1
Increment(d, k) == DictSet(d, k, DictGet(d, k, 0) + 1)

\* as PortProtocolIdentifier, but the protocol name keeps its case
PortProtocolIdentifierKeepingCase(dstport, protocol_name) == <<dstport, protocol_name>>

\* line 136: the key of port_protocol_counts
PortProtocolIdentifier(dstport, protocol_name) == <<dstport, Lower(protocol_name)>>

\* process_row: [raised, tag_counts, port_protocol_counts].  Unpacking None at
\* line 131 raises TypeError before either dict is touched.
process_row(row, tc, ppc, protos, table) ==
    LET ex == extract_dstport_protocol(row)
    IN  IF ex.raised # "none"
        THEN [raised |-> ex.raised, tag_counts |-> tc, port_protocol_counts |-> ppc]
        ELSE IF ex.value = None
        THEN [raised |-> "TypeError", tag_counts |-> tc, port_protocol_counts |-> ppc]
        ELSE LET dstport         == ex.value[1]
                 protocol_number == ex.value[2]
             IN  IF dstport # <<>> /\ protocol_number # <<>>
                 THEN LET protocol_name ==
                              get_protcol_from_protocol_number(protocol_number, protos)
                          tag == get_tag_from_lookup(table, dstport, protocol_name)
                      IN  [raised |-> "none",
                           tag_counts |-> Increment(tc, tag),
                           port_protocol_counts |->
                               Increment(ppc, PortProtocolIdentifier(dstport, protocol_name))]
                 ELSE [raised |-> "none", tag_counts |-> tc,
                       port_protocol_counts |-> ppc]

\* line 117: the .csv branch keeps a row of exactly 14 columns
CsvRowSkipped(row) == Len(row.val) # NumFields

\* as TextLineSkipped, but with < in place of !=
TextLineSkippedIfShorter(row) ==
    LET stripped == Strip(row.val)
    IN  stripped = <<>> \/ Len(Split(stripped)) < NumFields

\* lines 123-124: the text branch keeps a stripped line of exactly 14 tokens
TextLineSkipped(row) ==
    LET stripped == Strip(row.val)
    IN  stripped = <<>> \/ Len(Split(stripped)) # NumFields

----------------------------------------------------------------------------
(* Inputs: the files the run reads *)

SeqsUpTo(S, n) == UNION {[1..k -> S] : k \in 0..n}

Row3(d, p, t) == [dstport |-> d, protocol |-> p, tag |-> t]
Row2(d, k)    == [Decimal |-> d, Keyword |-> k]

\* protocol_numbers.csv: lower-case keywords, or the IANA file's upper-case ones
\* (17 is then not registered)
ProtocolFiles ==
    { << Row2(<<"6">>, <<"t","c","p">>), Row2(<<"1","7">>, <<"u","d","p">>) >>,
      << Row2(<<"6">>, <<"T","C","P">>), Row2(<<"1">>, <<"I","C","M","P">>) >> }

\* lookup_table.csv: plain rules, or rules with padding, upper case, a duplicate
\* key and an empty tag
LookupFiles ==
    { << Row3(<<"8","0">>, <<"t","c","p">>, <<"w","e","b">>),
         Row3(<<"5","3">>, <<"u","d","p">>, <<"d","n","s">>) >>,
      << Row3(<<"4","4","3">>, <<"T","C","P">>, <<"S","S","L"," ">>),
         Row3(<<" ","5","3">>, <<"U","n","a","s","s","i","g","n","e","d">>, <<"D","n","s">>),
         Row3(<<"8","0">>, <<"t","c","p">>, <<"w","e","b">>),
         Row3(<<"8","0">>, <<"T","c","p">>, <<>>) >> }

\* the fields of one flow-log record with n fields: the 6th and the 8th are given,
\* the others are a filler token
Fields(n, dst, proto) ==
    [i \in 1..n |-> IF i = DstPortIndex + 1 THEN dst
                    ELSE IF i = ProtocolIndex + 1 THEN proto ELSE <<"x">>]

RECURSIVE JoinSpace(_)
JoinSpace(fields) ==
    IF fields = <<>> THEN <<>>
    ELSE IF Len(fields) = 1 THEN Head(fields)
    ELSE Head(fields) \o <<" ">> \o JoinSpace(Tail(fields))

\* the valid records of the model's sources
ValidFieldLists ==
    { Fields(NumFields, <<"8","0">>, <<"6">>),
      Fields(NumFields, <<"5","3">>, <<"1","7">>),
      Fields(NumFields, <<"4","4","3">>, <<"6">>) }

\* records of another field count: 13 fields, none (a blank line), 15 fields
ShortOrLongFieldLists ==
    { Fields(NumFields - 1, <<"8","0">>, <<"6">>),
      Fields(0, <<>>, <<>>),
      Fields(NumFields + 1, <<"8","0">>, <<"6">>) }

\* 14 columns of which the 6th or the 8th is empty once trimmed (a text line
\* cannot hold such a field: split() yields no empty token)
EmptyFieldLists ==
    { Fields(NumFields, <<" ">>, <<"6">>),
      Fields(NumFields, <<"8","0">>, <<>>) }

\* as csv.reader yields them
CsvRows ==
    {ListRow(f) : f \in ValidFieldLists \cup EmptyFieldLists
                        \cup {Fields(NumFields - 1, <<"8","0">>, <<"6">>)}}
\* as iterating the text file yields them: the fields joined by blanks, and a newline
TextLines ==
    {StrRow(JoinSpace(f) \o <<"\n">>) : f \in ValidFieldLists \cup ShortOrLongFieldLists}

Filenames == {FlowLogsTxt, FlowLogsCsv}

\* line 113
IsCsv(name) == EndsWith(name, DotCsv)

FileContents(name) ==
    SeqsUpTo(IF IsCsv(name) THEN CsvRows ELSE TextLines, MaxRecords)

----------------------------------------------------------------------------
(* The run: module level (lines 169-176) and process_flow_log_file *)

Absent == [header |-> <<>>, rows |-> {}]

Init ==
    /\ pc = "load_protocols"
    /\ protocol_file = <<>>
    /\ lookup_file = <<>>
    /\ protocols = EmptyDict
    /\ lookup_table = EmptyDict
    /\ filename = <<>>
    /\ file_rows = <<>>
    /\ pos = 0
    /\ tag_counts = EmptyDict
    /\ port_protocol_counts = EmptyDict
    /\ error = "none"
    /\ tag_counts_csv = Absent
    /\ port_protocol_counts_csv = Absent
    /\ call = <<>>
    /\ result = <<>>

\* an uncaught exception ends the run
Raise(exc) == pc' = "aborted" /\ error' = exc

\* line 169
LoadProtocols ==
    /\ pc = "load_protocols"
    /\ \E f \in ProtocolFiles :
          /\ protocol_file' = f
          /\ protocols' = load_protocols_from_csv(f)
    /\ pc' = "load_lookup"
    /\ UNCHANGED <<lookup_file, lookup_table, filename, file_rows, pos, tag_counts,
                   port_protocol_counts, error, tag_counts_csv,
                   port_protocol_counts_csv, call, result>>

\* line 54: open() of a missing or unreadable file raises
LoadProtocolsFail ==
    /\ pc = "load_protocols"
    /\ Raise("OSError")
    /\ UNCHANGED <<protocol_file, lookup_file, protocols, lookup_table, filename,
                   file_rows, pos, tag_counts, port_protocol_counts, tag_counts_csv,
                   port_protocol_counts_csv, call, result>>

\* line 170
LoadLookup ==
    /\ pc = "load_lookup"
    /\ \E f \in LookupFiles :
          /\ lookup_file' = f
          /\ lookup_table' = load_lookup_table(f)
    /\ pc' = "main"
    /\ UNCHANGED <<protocol_file, protocols, filename, file_rows, pos, tag_counts,
                   port_protocol_counts, error, tag_counts_csv,
                   port_protocol_counts_csv, call, result>>

\* line 15
LoadLookupFail ==
    /\ pc = "load_lookup"
    /\ Raise("OSError")
    /\ UNCHANGED <<protocol_file, lookup_file, protocols, lookup_table, filename,
                   file_rows, pos, tag_counts, port_protocol_counts, tag_counts_csv,
                   port_protocol_counts_csv, call, result>>

\* lines 110-114 / 121: the call, the two empty dicts, the open()
OpenFlowLog ==
    /\ pc = "main"
    /\ \E name \in Filenames :
          /\ filename' = name
          /\ \E content \in FileContents(name) : file_rows' = content
    /\ pos' = 0
    /\ tag_counts' = EmptyDict
    /\ port_protocol_counts' = EmptyDict
    /\ pc' = "ingest"
    /\ UNCHANGED <<protocol_file, lookup_file, protocols, lookup_table, error,
                   tag_counts_csv, port_protocol_counts_csv, call, result>>

\* lines 114 / 121: the flow-log source is missing or unreadable
OpenFlowLogFail ==
    /\ pc = "main"
    /\ \E name \in Filenames : filename' = name
    /\ Raise("OSError")
    /\ UNCHANGED <<protocol_file, lookup_file, protocols, lookup_table, file_rows,
                   pos, tag_counts, port_protocol_counts, tag_counts_csv,
                   port_protocol_counts_csv, call, result>>

\* the state after the loop body has handled one raw record
Handled(skipped, row) ==
    IF skipped
    THEN /\ pos' = pos + 1
         /\ UNCHANGED <<pc, error, tag_counts, port_protocol_counts>>
    ELSE LET r == process_row(row, tag_counts, port_protocol_counts,
                              protocols, lookup_table)
         IN  /\ tag_counts' = r.tag_counts
             /\ port_protocol_counts' = r.port_protocol_counts
             /\ pos' = pos + 1
             /\ IF r.raised = "none" THEN UNCHANGED <<pc, error>> ELSE Raise(r.raised)

\* lines 116-119: one iteration of the loop of the .csv branch
ProcessCsvRow ==
    /\ pc = "ingest"
    /\ IsCsv(filename)
    /\ pos < Len(file_rows)
    /\ LET row == file_rows[pos + 1]
       IN  Handled(CsvRowSkipped(row), row)
    /\ UNCHANGED <<protocol_file, lookup_file, protocols, lookup_table, filename,
                   file_rows, tag_counts_csv, port_protocol_counts_csv, call, result>>

\* lines 122-126: one iteration of the loop of the text branch
ProcessTextLine ==
    /\ pc = "ingest"
    /\ ~IsCsv(filename)
    /\ pos < Len(file_rows)
    /\ LET row == file_rows[pos + 1]
       IN  Handled(TextLineSkipped(row), StrRow(Strip(row.val)))
    /\ UNCHANGED <<protocol_file, lookup_file, protocols, lookup_table, filename,
                   file_rows, tag_counts_csv, port_protocol_counts_csv, call, result>>

\* lines 116 / 122: reading the next record from the open file fails
ReadFail ==
    /\ pc = "ingest"
    /\ pos < Len(file_rows)
    /\ Raise("OSError")
    /\ UNCHANGED <<protocol_file, lookup_file, protocols, lookup_table, filename,
                   file_rows, pos, tag_counts, port_protocol_counts, tag_counts_csv,
                   port_protocol_counts_csv, call, result>>

\* as SourceExhausted, but the return sits inside the loop body
ReturnInsideLoop == pos >= 1 \/ pos = Len(file_rows)

\* the loop ends when the source is exhausted
SourceExhausted == pos = Len(file_rows)

\* lines 128 / 173: the source is exhausted, the two dicts are returned
ReturnCounts ==
    /\ pc = "ingest"
    /\ SourceExhausted
    /\ pc' = "write_tag_counts"
    /\ UNCHANGED <<protocol_file, lookup_file, protocols, lookup_table, filename,
                   file_rows, pos, tag_counts, port_protocol_counts, error,
                   tag_counts_csv, port_protocol_counts_csv, call, result>>

\* lines 148-152
write_tag_counts_to_csv(tc) ==
    [header |-> <<"Tag", "Count">>, rows |-> {<<k, tc[k]>> : k \in DOMAIN tc}]

\* lines 163-167
write_port_protocol_counts_to_csv(ppc) ==
    [header |-> <<"Port", "Protocol", "Count">>,
     rows |-> {<<k[1], k[2], ppc[k]>> : k \in DOMAIN ppc}]

\* line 175
WriteTagCounts ==
    /\ pc = "write_tag_counts"
    /\ tag_counts_csv' = write_tag_counts_to_csv(tag_counts)
    /\ pc' = "write_port_protocol_counts"
    /\ UNCHANGED <<protocol_file, lookup_file, protocols, lookup_table, filename,
                   file_rows, pos, tag_counts, port_protocol_counts, error,
                   port_protocol_counts_csv, call, result>>

\* line 176
WritePortProtocolCounts ==
    /\ pc = "write_port_protocol_counts"
    /\ port_protocol_counts_csv' =
           write_port_protocol_counts_to_csv(port_protocol_counts)
    /\ pc' = "done"
    /\ UNCHANGED <<protocol_file, lookup_file, protocols, lookup_table, filename,
                   file_rows, pos, tag_counts, port_protocol_counts, error,
                   tag_counts_csv, call, result>>

Next ==
    \/ LoadProtocols
    \/ LoadProtocolsFail
    \/ LoadLookup
    \/ LoadLookupFail
    \/ OpenFlowLog
    \/ OpenFlowLogFail
    \/ ProcessCsvRow
    \/ ProcessTextLine
    \/ ReadFail
    \/ ReturnCounts
    \/ WriteTagCounts
    \/ WritePortProtocolCounts

Spec == Init /\ [][Next]_vars

----------------------------------------------------------------------------
(* Direct calls of the tag lookup: load_lookup_table on any small rule file, *)
(* then get_tag_from_lookup on any query                                     *)

\* rule rows: a port with or without padding, a protocol in either case, a tag
\* in mixed case with padding or an empty tag
LookupRowSet ==
    { Row3(d, p, t) : d \in {<<"8","0">>, <<" ","5","3">>},
                      p \in {<<"t","c","p">>, <<"T","C","P">>},
                      t \in {<<"W","e","b"," ">>, <<>>} }

QueryPorts == {<<"8","0">>, <<"5","3">>}
QueryNames == {<<"t","c","p">>, <<"T","C","P">>, <<"u","d","p">>}

InitResolver(start) ==
    /\ pc = start
    /\ protocol_file = <<>>
    /\ lookup_file = <<>>
    /\ protocols = EmptyDict
    /\ lookup_table = EmptyDict
    /\ filename = <<>>
    /\ file_rows = <<>>
    /\ pos = 0
    /\ tag_counts = EmptyDict
    /\ port_protocol_counts = EmptyDict
    /\ error = "none"
    /\ tag_counts_csv = Absent
    /\ port_protocol_counts_csv = Absent
    /\ call = <<>>
    /\ result = <<>>

InitLookup == InitResolver("load_lookup")

LoadRuleFile ==
    /\ pc = "load_lookup"
    /\ \E f \in SeqsUpTo(LookupRowSet, MaxRules) :
          /\ lookup_file' = f
          /\ lookup_table' = load_lookup_table(f)
    /\ pc' = "loaded"
    /\ UNCHANGED <<protocol_file, protocols, filename, file_rows, pos, tag_counts,
                   port_protocol_counts, error, tag_counts_csv,
                   port_protocol_counts_csv, call, result>>

CallGetTag ==
    /\ pc = "loaded"
    /\ \E dstport \in QueryPorts, protocol \in QueryNames :
          /\ call' = <<dstport, protocol>>
          /\ result' = get_tag_from_lookup(lookup_table, dstport, protocol)
    /\ UNCHANGED <<pc, protocol_file, lookup_file, protocols, lookup_table, filename,
                   file_rows, pos, tag_counts, port_protocol_counts, error,
                   tag_counts_csv, port_protocol_counts_csv>>

NextLookup == LoadRuleFile \/ CallGetTag

SpecLookup == InitLookup /\ [][NextLookup]_vars

----------------------------------------------------------------------------
(* Direct calls of the protocol registry *)

ProtocolRowSet ==
    { Row2(d, k) : d \in {<<"6">>, <<"0","6">>, <<"1","7">>},
                   k \in {<<"t","c","p">>, <<"U","D","P">>, <<>>} }

QueryNumbers == {<<"6">>, <<"0","6">>, <<"1","7">>, <<"1">>}

InitProtocols == InitResolver("load_protocols")

LoadProtocolFile ==
    /\ pc = "load_protocols"
    /\ \E f \in SeqsUpTo(ProtocolRowSet, MaxProtocols) :
          /\ protocol_file' = f
          /\ protocols' = load_protocols_from_csv(f)
    /\ pc' = "loaded"
    /\ UNCHANGED <<lookup_file, lookup_table, filename, file_rows, pos, tag_counts,
                   port_protocol_counts, error, tag_counts_csv,
                   port_protocol_counts_csv, call, result>>

CallGetProtocol ==
    /\ pc = "loaded"
    /\ \E protocol_number \in QueryNumbers :
          /\ call' = <<protocol_number>>
          /\ result' = get_protcol_from_protocol_number(protocol_number, protocols)
    /\ UNCHANGED <<pc, protocol_file, lookup_file, protocols, lookup_table, filename,
                   file_rows, pos, tag_counts, port_protocol_counts, error,
                   tag_counts_csv, port_protocol_counts_csv>>

NextProtocols == LoadProtocolFile \/ CallGetProtocol

SpecProtocols == InitProtocols /\ [][NextProtocols]_vars

----------------------------------------------------------------------------
(* Vocabulary of the properties *)

\* the fields of a raw record: the columns of a row, the tokens of a line
FieldsOf(row) == IF row.kind = "list" THEN row.val ELSE Split(row.val)

\* exactly 14 fields
HasSchemaFieldCount(row) == Len(FieldsOf(row)) = NumFields

\* 14 fields of which the 6th or the 8th is empty after trimming
HasEmptyRequiredField(row) ==
    /\ HasSchemaFieldCount(row)
    /\ \/ Strip(FieldsOf(row)[6]) = <<>>
       \/ Strip(FieldsOf(row)[8]) = <<>>

\* a valid record: 14 fields, the 6th and the 8th non-empty after trimming
ValidRecord(row) == HasSchemaFieldCount(row) /\ ~HasEmptyRequiredField(row)

NumValid(rows) == Cardinality({i \in DOMAIN rows : ValidRecord(rows[i])})

\* the record the next iteration of the loop takes
NextRecord == file_rows[pos + 1]

\* this step is one iteration of the loop of process_flow_log_file
LoopStep == pc = "ingest" /\ pos < Len(file_rows) /\ pos' = pos + 1

\* process_flow_log_file has stopped by itself: it returned, or it raised something
\* other than a failure of the source
Stopped == pc \in {"write_tag_counts", "write_port_protocol_counts", "done"}
           \/ (pc = "aborted" /\ error \notin {"none", "OSError"})

CountsUnchanged == UNCHANGED <<tag_counts, port_protocol_counts>>

\* the number of records of the source that are the 14-field record (dst, proto)
Occurrences(dst, proto) ==
    Cardinality({i \in DOMAIN file_rows :
                    FieldsOf(file_rows[i]) = Fields(NumFields, dst, proto)})

str_web == <<"w","e","b">>
str_dns == <<"d","n","s">>
str_tcp == <<"t","c","p">>
str_udp == <<"u","d","p">>
str_untagged == <<"u","n","t","a","g","g","e","d">>

\* the scenario of the specification: the two tables, and a source of exactly
\* (80,6) x2, (53,17) x1, (443,6) x1, wholly processed
ScenarioDone ==
    /\ pc \in {"write_tag_counts", "write_port_protocol_counts", "done"}
    /\ protocols = (<<"6">> :> str_tcp) @@ (<<"1","7">> :> str_udp)
    /\ lookup_table = (<<"8","0",":","t","c","p">> :> str_web)
                      @@ (<<"5","3",":","u","d","p">> :> str_dns)
    /\ Len(file_rows) = 4
    /\ Occurrences(<<"8","0">>, <<"6">>) = 2
    /\ Occurrences(<<"5","3">>, <<"1","7">>) = 1
    /\ Occurrences(<<"4","4","3">>, <<"6">>) = 1

----------------------------------------------------------------------------
(* C1 *)

\* C1: once process_flow_log_file has stopped, the counts of tag_counts and of
\* port_protocol_counts both sum to the number of valid records of the input; and
\* after every prefix the loop has taken, to the number of valid records in it.
C1_SumsEqualValidRecords ==
    /\ SumValues(tag_counts) = SumValues(port_protocol_counts)
    /\ pc = "ingest" =>
          SumValues(tag_counts) = NumValid(SubSeq(file_rows, 1, pos))
    /\ Stopped => SumValues(tag_counts) = NumValid(file_rows)

----------------------------------------------------------------------------
(* C2 *)

\* C2: a 14-field record whose 6th or 8th field is empty after trimming is skipped
\* silently: the iteration raises nothing, changes neither dict, and the loop goes on.
C2_EmptyFieldSilentlySkipped ==
    [][ (LoopStep /\ HasEmptyRequiredField(NextRecord))
        => (pc' = "ingest" /\ error' = "none" /\ CountsUnchanged) ]_vars

----------------------------------------------------------------------------
(* C3 *)

\* C3: in both branches, a record whose field count is not 14 leaves both dicts as
\* they were, raises nothing, and the loop goes on to the next record.
C3_WrongFieldCountSkipped ==
    [][ (LoopStep /\ ~HasSchemaFieldCount(NextRecord))
        => (pc' = "ingest" /\ error' = "none" /\ CountsUnchanged) ]_vars

\* a record of another field count was skipped and the valid one after it counted
C3_Witness ==
    /\ pc = "ingest"
    /\ pos >= 2
    /\ ~HasSchemaFieldCount(file_rows[pos - 1])
    /\ ValidRecord(file_rows[pos])
    /\ SumValues(tag_counts) = NumValid(SubSeq(file_rows, 1, pos))
    /\ SumValues(tag_counts) >= 1

----------------------------------------------------------------------------
(* C4 *)

\* C4 as stated: every key of tag_counts is lowercase, an unmatched record is
\* counted under "untagged", and the scenario ends with {web:2, dns:1, untagged:1}.
C4_AllTagsLowercase ==
    /\ \A t \in DOMAIN tag_counts : t = Lower(t)
    /\ ScenarioDone =>
          tag_counts = (str_web :> 2) @@ (str_dns :> 1) @@ (str_untagged :> 1)

\* C4 amended: every key of tag_counts is a lowercase tag of the lookup table or
\* the sentinel "Untagged" (capital U), and the scenario ends with
\* {web:2, dns:1, Untagged:1}.
C4_TagsLowercaseOrUntagged ==
    /\ \A t \in DOMAIN tag_counts : t = Lower(t) \/ t = Untagged
    /\ ScenarioDone =>
          tag_counts = (str_web :> 2) @@ (str_dns :> 1) @@ (Untagged :> 1)

\* the scenario has run to its end
C4_Witness ==
    /\ ScenarioDone
    /\ pc = "done"
    /\ Untagged \in DOMAIN tag_counts
    /\ tag_counts_csv.rows = {<<str_web, 2>>, <<str_dns, 1>>, <<Untagged, 1>>}

----------------------------------------------------------------------------
(* C5 *)

\* C5: for every table load_lookup_table builds, every port and every two protocol
\* names that differ only in letter case, get_tag_from_lookup returns the same tag.
C5_TagLookupCaseInsensitive ==
    pc = "loaded" =>
      \A p \in QueryPorts : \A n1, n2 \in QueryNames :
         Lower(n1) = Lower(n2) =>
            get_tag_from_lookup(lookup_table, p, n1)
              = get_tag_from_lookup(lookup_table, p, n2)

\* a rule written with an upper-case protocol, asked for in upper case, gave its tag
C5_Witness ==
    /\ pc = "loaded"
    /\ \E i \in DOMAIN lookup_file : lookup_file[i].protocol = <<"T","C","P">>
    /\ call = << <<"8","0">>, <<"T","C","P">> >>
    /\ result = str_web
    /\ get_tag_from_lookup(lookup_table, <<"8","0">>, str_tcp) = str_web

----------------------------------------------------------------------------
(* C6 *)

\* the composite key of a rule row: the port trimmed, the protocol lowercased
RuleKey(row) == Strip(row.dstport) \o <<":">> \o Lower(Strip(row.protocol))

\* C6: the loaded table holds exactly the composite keys of the rows, one entry
\* each, and the tag of a key is that of the last row of the file with that key.
C6_LastDuplicateRuleWins ==
    pc = "loaded" =>
      LET keys == [i \in DOMAIN lookup_file |-> RuleKey(lookup_file[i])]
          IsLast(j) == \A k \in DOMAIN lookup_file : keys[k] = keys[j] => k <= j
      IN  /\ DOMAIN lookup_table = {keys[i] : i \in DOMAIN lookup_file}
          /\ \A j \in DOMAIN lookup_file :
                IsLast(j) => lookup_table[keys[j]] = Lower(Strip(lookup_file[j].tag))

\* two rows of one key with different tags, and a row of another key between them
C6_Witness ==
    /\ pc = "loaded"
    /\ Len(lookup_file) = 3
    /\ RuleKey(lookup_file[1]) = RuleKey(lookup_file[3])
    /\ RuleKey(lookup_file[2]) # RuleKey(lookup_file[1])
    /\ lookup_file[1].protocol # lookup_file[3].protocol
    /\ Lower(Strip(lookup_file[1].tag)) # Lower(Strip(lookup_file[3].tag))
    /\ Cardinality(DOMAIN lookup_table) = 2
    /\ lookup_table[RuleKey(lookup_file[1])] = Lower(Strip(lookup_file[3].tag))

----------------------------------------------------------------------------
(* C7 *)

\* C7: an output table is written only once the flow-log source is wholly consumed
\* and the counts are final; a run that an exception ended has written none.
C7_OutputOnlyAfterIngest ==
    /\ (tag_counts_csv # Absent \/ port_protocol_counts_csv # Absent) =>
          /\ pc \in {"write_port_protocol_counts", "done"}
          /\ pos = Len(file_rows)
          /\ error = "none"
          /\ tag_counts_csv = write_tag_counts_to_csv(tag_counts)
    /\ pc = "aborted" =>
          tag_counts_csv = Absent /\ port_protocol_counts_csv = Absent

\* both tables written, after a source of several records
C7_Witness ==
    /\ pc = "done"
    /\ Len(file_rows) >= 2
    /\ tag_counts_csv.rows # {}
    /\ port_protocol_counts_csv.rows # {}

----------------------------------------------------------------------------
(* C8 *)

\* the key get_tag_from_lookup asks the table for
QueryKey == call[1] \o <<":">> \o Lower(call[2])

----------------------------------------------------------------------------
(* C9 *)

\* C9: the registry is keyed by the Decimal strings of the file as they stand;
\* get_protcol_from_protocol_number returns the registered keyword, empty or not,
\* for a string that is a key and "Unassigned" for any other string.
C9_ProtocolNumberOpaqueKey ==
    (pc = "loaded" /\ call # <<>>) =>
       /\ DOMAIN protocols = {protocol_file[i].Decimal : i \in DOMAIN protocol_file}
       /\ IF call[1] \in DOMAIN protocols
          THEN result = protocols[call[1]]
          ELSE result = Unassigned

\* only "6" is registered and "06" was asked for
C9_Witness ==
    /\ pc = "loaded"
    /\ DOMAIN protocols = {<<"6">>}
    /\ call = << <<"0","6">> >>
    /\ result = Unassigned

----------------------------------------------------------------------------
(* C10 *)

\* C10: an iteration on a valid record raises tag_counts[tag] and
\* port_protocol_counts[(dstport, lowercased protocol name)] by one, creating them
\* at 1, and changes nothing else; no step removes or lowers an entry of either
\* dict, and no step after the loads changes the registry or the lookup table.
C10_ValidRecordFrame ==
    [][ /\ (LoopStep /\ ValidRecord(NextRecord)) =>
             LET dstport == Strip(FieldsOf(NextRecord)[6])
                 name    == get_protcol_from_protocol_number(
                                Strip(FieldsOf(NextRecord)[8]), protocols)
                 tag     == get_tag_from_lookup(lookup_table, dstport, name)
                 key     == <<dstport, Lower(name)>>
             IN  /\ DOMAIN tag_counts' = DOMAIN tag_counts \cup {tag}
                 /\ tag_counts'[tag] = DictGet(tag_counts, tag, 0) + 1
                 /\ \A t \in DOMAIN tag_counts \ {tag} : tag_counts'[t] = tag_counts[t]
                 /\ DOMAIN port_protocol_counts' = DOMAIN port_protocol_counts \cup {key}
                 /\ port_protocol_counts'[key] = DictGet(port_protocol_counts, key, 0) + 1
                 /\ \A k \in DOMAIN port_protocol_counts \ {key} :
                       port_protocol_counts'[k] = port_protocol_counts[k]
                 /\ UNCHANGED <<pc, error, file_rows, filename, tag_counts_csv,
                                port_protocol_counts_csv>>
        /\ \A t \in DOMAIN tag_counts :
              t \in DOMAIN tag_counts' /\ tag_counts'[t] >= tag_counts[t]
        /\ \A k \in DOMAIN port_protocol_counts :
              /\ k \in DOMAIN port_protocol_counts'
              /\ port_protocol_counts'[k] >= port_protocol_counts[k]
        /\ pc \in {"main", "ingest", "write_tag_counts", "write_port_protocol_counts"}
              => UNCHANGED <<protocols, lookup_table>>
      ]_vars

\* a second record of one pair was counted beside an entry of another pair, under
\* a registry whose keyword is upper case
C10_Witness ==
    /\ pc = "ingest"
    /\ pos >= 3
    /\ ValidRecord(file_rows[pos])
    /\ \E k \in DOMAIN port_protocol_counts :
          port_protocol_counts[k] = 2 /\ k[2] = str_tcp
    /\ <<"6">> \in DOMAIN protocols /\ protocols[<<"6">>] = <<"T","C","P">>
    /\ Cardinality(DOMAIN port_protocol_counts) >= 2
    /\ Cardinality(DOMAIN tag_counts) >= 2

====
